---- MODULE Spec2Model ----
(***************************************************************************)
(* Model of the Instagram data pipeline:                                    *)
(*   JobScheduler         (instagram_pipeline/scheduler/job_scheduler.py)   *)
(*   InstagramScraper     (instagram_pipeline/scraper/instagram_scraper.py) *)
(*   InterestAnalyzer     (instagram_pipeline/analysis/interest_analyzer.py)*)
(*   ProxyManager         (instagram_pipeline/scraper/proxy_manager.py)     *)
(*   the tables           (instagram_pipeline/database/setup.py)            *)
(*                                                                         *)
(* The scheduler is single-threaded: a tick (process_pending_jobs) selects  *)
(* a batch and runs the jobs one after the other.  A tick is modelled by    *)
(* one action for lines 79-107 (reset, quota check, selection) and one      *)
(* action per iteration of the loop of lines 109-149; a followers or        *)
(* following iteration is cut once more at the commit of the scraper's      *)
(* INSERT (line 240 / 333), which is the state a process interruption       *)
(* leaves behind.                                                           *)
(*                                                                         *)
(* Time is counted in whole days.  now is the absolute day number;          *)
(* datetime.now().day is the day of the month, DayOfMonth(now).             *)
(*                                                                         *)
(* Two levels of the scraping are specified.  Spec and SpecCrash follow    *)
(* the scheduler and take the listing a followers/following call walks      *)
(* through as one step;                                                     *)
(* they do not track the edge tables or the progress columns of             *)
(* scrape_jobs.  SpecFetch follows the scraper's calls item by item, with   *)
(* the tables users, followers, following and mutuals, the commits and the  *)
(* work a process interruption rolls back.  SpecClassify follows the        *)
(* interest analysis batch by batch from a database a completed scrape      *)
(* left; SpecMalformed adds responses with malformed entries to it,         *)
(* SpecPartition follows the cutting into batches for any list and batch    *)
(* size, and SpecPending the analysis service that never stops, under       *)
(* fairness.  SpecProxy follows the calls of a proxy pool.                  *)
(***************************************************************************)
EXTENDS Integers, Sequences, FiniteSets, TLC

\* ------------------------------------------------------------------ bounds
\* Number of target handles the operator may enroll.
NumTargets == 2
\* Rows the scrape_jobs table may hold; a tick is not started when its
\* batch could grow the table beyond it.
MaxJobs == 7
\* Length of a month in days: days d and d + DaysInMonth have the same
\* day of the month.
DaysInMonth == 3
\* The configured daily quota (self.daily_quota; the code's default is 200,
\* job_scheduler.py:29), scaled.
daily_quota == 3
\* The batch cap of a tick (the literal 10 of job_scheduler.py:93), scaled
\* with the quota so that either argument of min(remaining_quota, cap) can
\* be the smaller one.
BatchLimit == 2
\* Accounts the platform knows; the targets are the first NumTargets.
NumAccounts == 3
\* Longest listing a followers/following call walks through.
MaxListing == 2
\* Followers/following calls of one behaviour of SpecFetch.
MaxFetches == 2
\* The progress checkpoint (the literal 10 of instagram_scraper.py:282),
\* scaled so that a listing has items on both sides of a checkpoint.
CheckpointEvery == 2
\* Accounts sent to the classifier in one request (self.batch_size = 20,
\* interest_analyzer.py:27), scaled.
AnalysisBatch == 1
\* Longest results list of one classifier response.
MaxResults == 2
\* The LIMIT 5 of process_pending_users (interest_analyzer.py:297), scaled.
PendingLimit == 2
\* Analyses of one behaviour that reach the classifier.
MaxRuns == 1
\* Completed following rows a target may have at the start of SpecClassify.
MaxDone == 2
\* get_proxy calls followed between two changes of the pool.
MaxCalls == 4
\* Proxies a proxy source may supply at a load.
MaxPool == 4
\* Length of the following list SpecPartition cuts into batches.
MaxSubjects == 4
\* Values of self.batch_size SpecPartition cuts with (20 in the code).
MaxBatch == 3

\* ------------------------------------------------------- program constants
\* timedelta(days=7) of the dedup query.
DedupDays == 7
\* if completed_count == 2
BothDone == 2
\* result.get("confidence", 0.5), in tenths
DefaultConfidence == 5
\* The placeholder proxies _load_proxies of proxy_manager.py puts in the pool.
PoolSize == 3
\* The placeholder proxies of the ProxyManager of instagram_scraper.py.
ScraperPoolSize == 2
\* mark_proxy_failed reloads when len(self.proxies) < 3.
LowWater == 3
NULL == -1

\* The dates the clock visits: the first day, the day after, the first day
\* of the next month (same day of the month as the first day) and the day
\* a week after the first.
Dates == {0, 1, DaysInMonth, DedupDays}

Targets == 1..NumTargets
Accounts == 1..NumAccounts
JobTypes == <<"profile", "followers", "following">>
FetchTypes == {"followers", "following"}

VARIABLES
    now,                    \* the wall clock: absolute day number
    jobs,                   \* scrape_jobs: sequence of rows, job_id = index
    users,                  \* handles that have a row in users
    current_day_processed,  \* JobScheduler.current_day_processed
    last_day,               \* JobScheduler.last_day (a day of the month)
    pc,                     \* "idle" | "batch" (in the loop) | "fetch" (in the scraper)
    batch,                  \* the rest of the fetched `jobs` list of the tick
    cur,                    \* job_id the running scraper call inserted, 0 if none
    last,                   \* the step just taken (history)
    stale,                  \* the date changed since last_day was recorded (history)
    dispatchedToday,        \* scraper calls of this scheduler on date now (history)
    full,                   \* handles whose users row holds a profile snapshot
    followers,              \* followers: sequence of <<user_id, follower_id>>
    following,              \* following: sequence of <<user_id, following_id>>
    mutuals,                \* mutuals: sequence of <<user_id, mutual_id>>
    uncommitted,            \* rows written since the last commit
    call,                   \* the running get_followers / get_following call
    ret,                    \* how the last scraper call ended
    interests,              \* interests: sequence of rows (user, cat, conf)
    acall,                  \* the running analyze_user_interests call
    queue,                  \* the rest of the `users` list of process_pending_users
    runs,                   \* analyses that reached the classifier (history)
    proxies,                \* ProxyManager.proxies
    current_index,          \* ProxyManager.current_index
    served,                 \* what get_proxy returned since the pool last changed (history)
    manager,                \* which ProxyManager class the object is of
    source,                 \* how many proxies the proxy source supplies
    failed                  \* proxies removed by mark_proxy_failed (history)

\* The variables only the item-level specification changes.
fetchVars == <<followers, following, mutuals, uncommitted, call, ret>>

\* The variables only the scheduler changes.
schedVars == <<now, current_day_processed, last_day, pc, batch, cur, stale,
               dispatchedToday>>

\* The variables only the interest analysis changes.
classVars == <<interests, acall, queue, runs>>

\* The variables only the proxy manager changes.
proxyVars == <<proxies, current_index, served, manager, source, failed>>

vars == <<now, jobs, users, current_day_processed, last_day, pc, batch, cur,
          last, stale, dispatchedToday, full, followers, following, mutuals,
          uncommitted, call, ret, interests, acall, queue, runs, proxies,
          current_index, served, manager, source, failed>>

\* ----------------------------------------------------------------- helpers
Min(a, b) == IF a < b THEN a ELSE b

Take(s, n) == SubSeq(s, 1, Min(n, Len(s)))

\* datetime.now().day
DayOfMonth(d) == (d % DaysInMonth) + 1

Step(op, t, j, n, ok) == [op |-> op, t |-> t, j |-> j, n |-> n, ok |-> ok]

\* A scrape_jobs row.  ran (history) tells that the scheduler has handed the
\* row to the scraper.
Row(t, ty, st, at) ==
    [target |-> t, type |-> ty, status |-> st, started |-> at, ran |-> FALSE,
     error |-> "NULL"]

SetStatus(js, j, st) == [js EXCEPT ![j].status = st]

\* UPDATE scrape_jobs SET status = 'failed', error_message = str(e)
SetFailed(js, j) == [js EXCEPT ![j].status = "failed", ![j].error = "str(e)"]

\* No scraper call is running.
NoCall == [op |-> "idle"]

\* Nothing is waiting for a commit.
Clean == [users |-> {}, edges |-> 0]

\* What a scraper call gave back: None, an exception, or a value.
Returned(k, v) == [kind |-> k, val |-> v]

\* ------------------------------------------------------------------- Init
Init ==
    /\ now = 0
    /\ jobs = <<>>
    /\ users = {}
    /\ current_day_processed = 0
    /\ last_day = DayOfMonth(0)
    /\ pc = "idle"
    /\ batch = <<>>
    /\ cur = 0
    /\ last = Step("init", 0, 0, 0, TRUE)
    /\ stale = FALSE
    /\ dispatchedToday = 0
    /\ full = {}
    /\ followers = <<>>
    /\ following = <<>>
    /\ mutuals = <<>>
    /\ uncommitted = Clean
    /\ call = NoCall
    /\ ret = Returned("none", 0)
    /\ interests = <<>>
    /\ acall = NoCall
    /\ queue = <<>>
    /\ runs = 0
    /\ proxies = <<>>
    /\ current_index = 0
    /\ served = <<>>
    /\ manager = "proxy_manager"
    /\ source = PoolSize
    /\ failed = {}

\* ----------------------------------------------------------------- enroll
\* RecentJobs with the dedup restricted to finished crawls.
RecentCompletedJobs(js, t, d) ==
    {j \in 1..Len(js) :
        /\ js[j].target = t
        /\ js[j].status = "completed"
        /\ js[j].started # NULL
        /\ js[j].started > d - DedupDays}

\* The dedup query of schedule_user_scraping: rows of the target whose
\* started_at is later than now - 7 days (a NULL started_at never compares).
RecentJobs(js, t, d) ==
    {j \in 1..Len(js) :
        /\ js[j].target = t
        /\ js[j].type \in {"profile", "followers", "following"}
        /\ js[j].started # NULL
        /\ js[j].started > d - DedupDays}

\* NewJobs with the loop over the job types stopping one short.
NewJobsButLast(t) == [i \in 1..2 |-> Row(t, JobTypes[i], "pending", NULL)]

\* The three INSERTs of schedule_user_scraping.
NewJobs(t) == [i \in 1..3 |-> Row(t, JobTypes[i], "pending", NULL)]

schedule_user_scraping(t) ==
    /\ pc = "idle"
    /\ IF RecentJobs(jobs, t, now) = {}
       THEN /\ Len(jobs) + 3 <= MaxJobs
            /\ jobs' = jobs \o NewJobs(t)
            /\ last' = Step("enroll", t, 0, 3, TRUE)
       ELSE /\ UNCHANGED jobs
            /\ last' = Step("enroll", t, 0, 0, FALSE)
    /\ UNCHANGED <<now, users, current_day_processed, last_day, pc, batch, cur,
                   stale, dispatchedToday, full>>
    /\ UNCHANGED <<fetchVars, classVars, proxyVars>>

\* ------------------------------------------------------------------- tick
\* The test of _reset_daily_counter: current_day != self.last_day.
ResetNeeded(day, stored) == day # stored

\* if self.current_day_processed >= self.daily_quota: return
QuotaReached(c) == c >= daily_quota

\* BatchSize without the remaining quota.
BatchSizeCapOnly(c) == BatchLimit

\* batch_size = min(remaining_quota, 10)
BatchSize(c) == Min(daily_quota - c, BatchLimit)

\* PendingIds without the WHERE clause.
AllIds(js) == [i \in 1..Len(js) |-> i]

\* WHERE status = 'pending' ORDER BY job_id
PendingIds(js) ==
    SelectSeq([i \in 1..Len(js) |-> i], LAMBDA i : js[i].status = "pending")

\* ... LIMIT batch_size
SelectBatch(js, c) == Take(PendingIds(js), BatchSize(c))

\* TickBatch without the quota: no early return, LIMIT 10.
TickBatchCapOnly(js, c) == Take(PendingIds(js), BatchLimit)

\* The `jobs` list a tick works on: none when it returns at the quota check
\* (lines 84-86), else the rows fetched at line 103.
TickBatch(js, c) == IF QuotaReached(c) THEN <<>> ELSE SelectBatch(js, c)

FetchJobsIn(js, sel) ==
    Cardinality({i \in 1..Len(sel) : js[sel[i]].type \in FetchTypes})

\* process_pending_jobs up to the loop: lines 79-107.
process_pending_jobs ==
    LET day   == DayOfMonth(now)
        reset == ResetNeeded(day, last_day)
        c     == IF reset THEN 0 ELSE current_day_processed
        sel   == TickBatch(jobs, c)
    IN  /\ pc = "idle"
        /\ Len(jobs) + FetchJobsIn(jobs, sel) <= MaxJobs
        /\ current_day_processed' = c
        /\ last_day' = IF reset THEN day ELSE last_day
        /\ stale' = IF reset THEN FALSE ELSE stale
        /\ batch' = sel
        /\ pc' = IF sel = <<>> THEN "idle" ELSE "batch"
        /\ last' = Step("tick", 0, 0, Len(sel), ~QuotaReached(c))
        /\ UNCHANGED <<now, jobs, users, cur, dispatchedToday, full>>
        /\ UNCHANGED <<fetchVars, classVars, proxyVars>>

\* The rest of the tick after one iteration of the loop.
AfterJob == IF Tail(batch) = <<>> THEN "idle" ELSE "batch"

Bump(n, cap) == IF n < cap THEN n + 1 ELSE cap

Dispatched(js, j) == [js EXCEPT ![j].ran = TRUE]

\* MarkFailed with a handler that only logs.
MarkNothing(js, j) == js

\* The handler of lines 140-149: the row of the loop goes to failed.
MarkFailed(js, j) == SetFailed(js, j)

\* An iteration of the loop for a profile job: get_user_profile stores the
\* account and touches no scrape_jobs row; or it raises.
RunProfile ==
    /\ pc = "batch"
    /\ batch # <<>>
    /\ LET j == Head(batch)
           t == jobs[j].target
       IN  /\ jobs[j].type = "profile"
           /\ \E ok \in BOOLEAN :
                /\ IF ok
                   THEN /\ users' = users \cup {t}
                        /\ full' = full \cup {t}
                        /\ jobs' = Dispatched(jobs, j)
                        /\ current_day_processed' = current_day_processed + 1
                   ELSE /\ jobs' = MarkFailed(Dispatched(jobs, j), j)
                        /\ UNCHANGED <<users, full, current_day_processed>>
                /\ last' = Step("profile", t, j, 0, ok)
    /\ batch' = Tail(batch)
    /\ pc' = AfterJob
    /\ dispatchedToday' = Bump(dispatchedToday, daily_quota + 1)
    /\ UNCHANGED <<now, last_day, cur, stale>>
    /\ UNCHANGED <<fetchVars, classVars, proxyVars>>

\* The INSERT ... RETURNING job_id of get_followers / get_following.
InsertInProgress(js, t, ty, d) == Append(js, Row(t, ty, "in_progress", d))

\* An iteration of the loop for a followers/following job, up to the commit
\* of the scraper's INSERT; or _initialize_instaloader raises before it.
BeginFetch ==
    /\ pc = "batch"
    /\ batch # <<>>
    /\ LET j == Head(batch)
           t == jobs[j].target
       IN  /\ jobs[j].type \in FetchTypes
           /\ \E ok \in BOOLEAN :
                /\ IF ok
                   THEN /\ jobs' = InsertInProgress(Dispatched(jobs, j), t,
                                                    jobs[j].type, now)
                        /\ cur' = Len(jobs) + 1
                        /\ pc' = "fetch"
                        /\ UNCHANGED batch
                   ELSE /\ jobs' = MarkFailed(Dispatched(jobs, j), j)
                        /\ batch' = Tail(batch)
                        /\ pc' = AfterJob
                        /\ UNCHANGED cur
                /\ last' = Step("begin", t, j, 0, ok)
    /\ dispatchedToday' = Bump(dispatchedToday, daily_quota + 1)
    /\ UNCHANGED <<now, users, current_day_processed, last_day, stale, full>>
    /\ UNCHANGED <<fetchVars, classVars, proxyVars>>

\* SELECT COUNT(*) ... job_type IN ('followers','following') AND
\* status = 'completed'
CompletedCount(js, t) ==
    Cardinality({i \in 1..Len(js) :
        /\ js[i].target = t
        /\ js[i].type \in FetchTypes
        /\ js[i].status = "completed"})

\* if completed_count == 2: calculate_mutual_followers is called
MutualTriggered(js, t) == CompletedCount(js, t) = BothDone

\* The rest of the iteration: the listing ends and the scraper's row goes to
\* completed, or an exception ends it and both rows go to failed.  On an
\* "end" step last.ok tells whether the mutual computation was called.
EndFetch ==
    /\ pc = "fetch"
    /\ LET j == Head(batch)
           t == jobs[j].target
       IN  \E ok \in BOOLEAN :
            /\ IF ok
               THEN /\ jobs' = SetStatus(jobs, cur, "completed")
                    /\ current_day_processed' = current_day_processed + 1
                    /\ last' = Step("end", t, j, CompletedCount(jobs', t),
                                      MutualTriggered(jobs', t))
               ELSE /\ jobs' = MarkFailed(SetFailed(jobs, cur), j)
                    /\ last' = Step("raise", t, j, 0, FALSE)
                    /\ UNCHANGED current_day_processed
    /\ batch' = Tail(batch)
    /\ pc' = AfterJob
    /\ cur' = 0
    /\ UNCHANGED <<now, users, last_day, stale, dispatchedToday, full>>
    /\ UNCHANGED <<fetchVars, classVars, proxyVars>>

\* ------------------------------------------------------------ environment
\* The date changes.
AdvanceDay ==
    /\ \E d \in Dates : d > now /\ now' = d
    /\ stale' = TRUE
    /\ dispatchedToday' = 0
    /\ last' = Step("clock", 0, 0, 0, TRUE)
    /\ UNCHANGED <<jobs, users, current_day_processed, last_day, pc, batch,
                   cur, full>>
    /\ UNCHANGED <<fetchVars, classVars, proxyVars>>

\* The process is interrupted and started again: JobScheduler.__init__.
\* The tables keep what was committed.
Restart ==
    /\ current_day_processed' = 0
    /\ last_day' = DayOfMonth(now)
    /\ stale' = FALSE
    /\ pc' = "idle"
    /\ batch' = <<>>
    /\ cur' = 0
    /\ dispatchedToday' = 0
    /\ last' = Step("restart", 0, 0, 0, TRUE)
    /\ UNCHANGED <<now, jobs, users, full>>
    /\ UNCHANGED <<fetchVars, classVars, proxyVars>>

Next ==
    \/ \E t \in Targets : schedule_user_scraping(t)
    \/ process_pending_jobs
    \/ RunProfile
    \/ BeginFetch
    \/ EndFetch
    \/ AdvanceDay

Spec == Init /\ [][Next]_vars

\* The same with process interruptions.
NextCrash ==
    \/ Next
    \/ Restart

SpecCrash == Init /\ [][NextCrash]_vars

\* ======================================================== the scraper calls
\* The listings profile.get_followers() / get_followees() may yield for a
\* target: distinct accounts other than the target, in any order.
Listings(t) ==
    UNION {{l \in [1..n -> Accounts \ {t}] :
                \A i, k \in 1..n : i # k => l[i] # l[k]} : n \in 0..MaxListing}

\* The values of the max_count argument: None or a number.
MaxCountArgs == {NULL} \cup (0..MaxListing + 1)

\* Python's truth value of max_count in `if max_count and ...`.
Truthy(m) == m # NULL /\ m # 0

\* The row get_followers / get_following insert for themselves.
FetchRow(t, ty, d) ==
    [target |-> t, type |-> ty, status |-> "in_progress", started |-> d,
     ran |-> FALSE, error |-> "NULL", processed |-> 0, total |-> NULL]

InTable(tbl, row) == \E i \in 1..Len(tbl) : tbl[i] = row

\* InsertUnique without the conflict clause and the UNIQUE constraint.
InsertAlways(tbl, row) == Append(tbl, row)

\* INSERT ... ON CONFLICT (user_id, follower_id) DO NOTHING
InsertUnique(tbl, row) == IF InTable(tbl, row) THEN tbl ELSE Append(tbl, row)

\* FullAfterInsert with ON CONFLICT (user_id) DO UPDATE: the row of the
\* listing replaces the stored one.
FullOverwritten(fl, a) == fl \ {a}

\* INSERT INTO users (5 columns of the listing) ON CONFLICT (user_id) DO
\* NOTHING: the rows holding a profile snapshot after it.
FullAfterInsert(fl, a) == fl

\* get_user_profile as the tests and the manual mode call it: the upsert of
\* the snapshot and its commit, or an exception.
get_user_profile(t) ==
    /\ call = NoCall
    /\ \E ok \in BOOLEAN :
         /\ IF ok
            THEN /\ users' = users \cup {t}
                 /\ full' = full \cup {t}
                 /\ ret' = Returned("value", t)
            ELSE /\ UNCHANGED <<users, full>>
                 /\ ret' = Returned("raise", 0)
         /\ last' = Step("get_user_profile", t, 0, 0, ok)
    /\ UNCHANGED <<jobs, followers, following, mutuals, uncommitted, call>>
    /\ UNCHANGED <<schedVars, classVars, proxyVars>>

\* The edge table of a call: followers for get_followers, following for
\* get_following.
EdgesOf(ty) == IF ty = "followers" THEN followers ELSE following

\* The edges of the table that start at the account.
EdgeSet(tbl, t) == {tbl[i] : i \in {k \in 1..Len(tbl) : tbl[k][1] = t}}

\* get_followers / get_following up to the commit of their own row (line
\* 240 / 333), or _initialize_instaloader raising before it.  The callers ask
\* for the profile first (main.py:61-69, the job order of an enrollment), so
\* the users row the edges refer to exists.
FetchStart(t, ty) ==
    /\ call = NoCall
    /\ t \in users
    /\ Len(jobs) < MaxFetches
    /\ \/ /\ \E m \in MaxCountArgs, l \in Listings(t) :
                call' = [op |-> ty, t |-> t, job |-> Len(jobs) + 1, rest |-> l,
                         count |-> 0, max |-> m, done |-> FALSE,
                         avail |-> Len(l),
                         fresh |-> EdgeSet(EdgesOf(ty), t) = {}]
          /\ jobs' = Append(jobs, FetchRow(t, ty, now))
          /\ last' = Step("start", t, Len(jobs) + 1, 0, TRUE)
          /\ UNCHANGED ret
       \/ /\ ret' = Returned("raise", 0)
          /\ last' = Step("start", t, 0, 0, FALSE)
          /\ UNCHANGED <<jobs, call>>
    /\ UNCHANGED <<users, full, followers, following, mutuals, uncommitted>>
    /\ UNCHANGED <<schedVars, classVars, proxyVars>>

\* self.db_conn.commit() at a checkpoint, else the rows of the item join the
\* open transaction.
AfterItem(checkpoint, newUsers, newEdges) ==
    IF checkpoint
    THEN Clean
    ELSE [users |-> uncommitted.users \cup newUsers,
          edges |-> uncommitted.edges + newEdges]

\* A checkpoint after every item.
CheckpointAlways(n) == TRUE

\* if follower_count % 10 == 0 (line 280 / 373)
AtCheckpoint(n) == n % CheckpointEvery = 0

\* One iteration of the loop of lines 248-292 / 339-385: the account of the
\* item, the edge, the counter, the checkpoint every 10 items, the break at
\* max_count.
FetchItem ==
    /\ call # NoCall
    /\ ~call.done
    /\ call.rest # <<>>
    /\ LET a    == Head(call.rest)
           tbl  == EdgesOf(call.op)
           new  == InsertUnique(tbl, <<call.t, a>>)
           n    == call.count + 1
           cp   == AtCheckpoint(n)
       IN  /\ users' = users \cup {a}
           /\ full' = FullAfterInsert(full, a)
           /\ IF call.op = "followers"
              THEN followers' = new /\ UNCHANGED following
              ELSE following' = new /\ UNCHANGED followers
           /\ jobs' = IF cp THEN [jobs EXCEPT ![call.job].processed = n]
                            ELSE jobs
           /\ uncommitted' = AfterItem(cp, {a} \ users, Len(new) - Len(tbl))
           /\ call' = [call EXCEPT !.rest = Tail(call.rest), !.count = n,
                                   !.done = Truthy(call.max) /\ n >= call.max]
           /\ last' = Step("item", call.t, a, n, Len(new) > Len(tbl))
    /\ UNCHANGED <<mutuals, ret>>
    /\ UNCHANGED <<schedVars, classVars, proxyVars>>

\* The completion of lines 295-305 / 388-398: the listing is exhausted or the
\* loop was left at max_count.
FetchDone ==
    /\ call # NoCall
    /\ call.done \/ call.rest = <<>>
    /\ jobs' = [jobs EXCEPT ![call.job].status = "completed",
                            ![call.job].total = call.count,
                            ![call.job].processed = call.count]
    /\ uncommitted' = Clean
    /\ ret' = Returned("value", call.count)
    /\ call' = NoCall
    /\ last' = Step("done", call.t, call.job, call.count, TRUE)
    /\ UNCHANGED <<users, full, followers, following, mutuals>>
    /\ UNCHANGED <<schedVars, classVars, proxyVars>>

\* FetchExcept's commit left out of the handler.
NoCommit(u) == u

\* The commit of the handler (line 316 / 409): nothing stays uncommitted.
HandlerCommit(u) == Clean

\* Profile.from_username or the listing raises: the handler of lines 307-318 /
\* 400-411 sets the call's row to failed, commits and raises again.
FetchExcept ==
    /\ call # NoCall
    /\ ~call.done
    /\ jobs' = SetFailed(jobs, call.job)
    /\ uncommitted' = HandlerCommit(uncommitted)
    /\ ret' = Returned("raise", 0)
    /\ call' = NoCall
    /\ last' = Step("except", call.t, call.job, call.count, FALSE)
    /\ UNCHANGED <<users, full, followers, following, mutuals>>
    /\ UNCHANGED <<schedVars, classVars, proxyVars>>

\* The table without its last n rows.
DropLast(tbl, n) == SubSeq(tbl, 1, Len(tbl) - n)

\* The process is interrupted during a call: the open transaction is rolled
\* back, the call's row stays as last committed.
Crash ==
    /\ call # NoCall
    /\ users' = users \ uncommitted.users
    /\ IF call.op = "followers"
       THEN /\ followers' = DropLast(followers, uncommitted.edges)
            /\ UNCHANGED following
       ELSE /\ following' = DropLast(following, uncommitted.edges)
            /\ UNCHANGED followers
    /\ uncommitted' = Clean
    /\ ret' = Returned("none", 0)
    /\ call' = NoCall
    /\ last' = Step("crash", call.t, call.job, call.count, TRUE)
    /\ UNCHANGED <<jobs, full, mutuals>>
    /\ UNCHANGED <<schedVars, classVars, proxyVars>>

\* Joined without the JOIN: every follower of the account.
AllFollowers(t) == SelectSeq(followers, LAMBDA r : r[1] = t)

\* Joined with the JOIN on the followed account alone (f1.user_id =
\* f2.user_id left out).
JoinedAnyUser(t) ==
    SelectSeq(followers,
              LAMBDA r : r[1] = t /\ \E i \in 1..Len(following) :
                                        following[i][2] = r[2])

\* SELECT f1.user_id, f1.follower_id FROM followers f1 JOIN following f2 ON
\* f1.user_id = f2.user_id AND f1.follower_id = f2.following_id
\* WHERE f1.user_id = t
Joined(t) == SelectSeq(followers, LAMBDA r : r[1] = t /\ InTable(following, r))

\* InsertAll without the conflict clause: every selected row is appended.
InsertAllAlways(tbl, rows) == tbl \o rows

\* INSERT INTO mutuals ... SELECT ... ON CONFLICT (user_id, mutual_id) DO
\* NOTHING
RECURSIVE InsertAll(_, _)
InsertAll(tbl, rows) ==
    IF rows = <<>> THEN tbl
    ELSE InsertAll(InsertUnique(tbl, Head(rows)), Tail(rows))

\* calculate_mutual_followers: the account is looked up by its handle; when
\* it has no users row the method logs and returns.  The number of inserted
\* rows (cursor.rowcount) is logged; the method has no return statement.
calculate_mutual_followers(t) ==
    /\ call = NoCall
    /\ IF t \in users
       THEN /\ mutuals' = InsertAll(mutuals, Joined(t))
            /\ last' = Step("mutual", t, 0, Len(mutuals') - Len(mutuals), TRUE)
       ELSE /\ UNCHANGED mutuals
            /\ last' = Step("mutual", t, 0, 0, FALSE)
    /\ ret' = Returned("none", 0)
    /\ UNCHANGED <<jobs, users, full, followers, following, uncommitted, call>>
    /\ UNCHANGED <<schedVars, classVars, proxyVars>>

\* _load_proxies of the scraper's ProxyManager (lines 36-46): the two
\* placeholders in one of the orders random.shuffle leaves.
ScraperLoads ==
    {s \in [1..ScraperPoolSize -> 1..ScraperPoolSize] :
        \A i, k \in 1..ScraperPoolSize : s[i] = s[k] => i = k}

NextFetch ==
    \/ \E t \in Targets : get_user_profile(t)
    \/ \E t \in Targets, ty \in FetchTypes : FetchStart(t, ty)
    \/ FetchItem
    \/ FetchDone
    \/ FetchExcept
    \/ Crash
    \/ \E t \in Targets : calculate_mutual_followers(t)

\* InstagramScraper.__init__ on an empty database: the scraper's own
\* ProxyManager has loaded and shuffled its two placeholder proxies.
InitFetch ==
    /\ now = 0
    /\ jobs = <<>>
    /\ users = {}
    /\ current_day_processed = 0
    /\ last_day = DayOfMonth(0)
    /\ pc = "idle"
    /\ batch = <<>>
    /\ cur = 0
    /\ last = Step("init", 0, 0, 0, TRUE)
    /\ stale = FALSE
    /\ dispatchedToday = 0
    /\ full = {}
    /\ followers = <<>>
    /\ following = <<>>
    /\ mutuals = <<>>
    /\ uncommitted = Clean
    /\ call = NoCall
    /\ ret = Returned("none", 0)
    /\ interests = <<>>
    /\ acall = NoCall
    /\ queue = <<>>
    /\ runs = 0
    /\ manager = "instagram_scraper"
    /\ source = ScraperPoolSize
    /\ proxies \in ScraperLoads
    /\ current_index = 0
    /\ served = <<>>
    /\ failed = {}

SpecFetch == InitFetch /\ [][NextFetch]_vars

\* ==================================================== the interest analysis
\* Names of interest_categories (two of the seeded ones); the category id is
\* identified with the name.
Taxonomy == {"Fashion", "Food"}

\* The categories a classifier result may name: the taxonomy and a name that
\* differs from a taxonomy name in case only.
ResultCats == Taxonomy \cup {"fashion"}

\* The confidences a classifier result may carry, in tenths: none (the key
\* is missing), 0.3, 0.9, 1.5.
ResultConfs == {NULL, 3, 9, 15}

Result(a, c, v) == [username |-> a, category |-> c, confidence |-> v]

\* The results lists a response for the batch may hold.
ResultLists(b) ==
    LET R == {Result(b[i], c, v) : i \in 1..Len(b), c \in ResultCats,
                                   v \in ResultConfs}
    IN  UNION {[1..n -> R] : n \in 0..MaxResults}

\* What the classifier call of a batch may end with: an exception of the
\* call, content json.loads rejects, an object without "results", or an
\* object with a results list.
Responses(b) ==
    {[kind |-> k, results |-> <<>>] : k \in {"error", "unparseable", "nokey"}}
    \cup {[kind |-> "ok", results |-> r] : r \in ResultLists(b)}

\* get_following_data_for_user: the followed accounts that have a users row.
FollowingData(t) ==
    LET rows == SelectSeq(following, LAMBDA r : r[1] = t /\ r[2] \in users)
    IN  [i \in 1..Len(rows) |-> rows[i][2]]

\* Only the full slices: the rest of the list is left out.
FullBatchesOnly(data, n) ==
    [k \in 1..(Len(data) \div n) |-> SubSeq(data, (k - 1) * n + 1, k * n)]

\* [following_data[i:i + n] for i in range(0, len(following_data), n)]
BatchesOf(data, n) ==
    [k \in 1..((Len(data) + n - 1) \div n) |->
        SubSeq(data, (k - 1) * n + 1, Min(k * n, Len(data)))]

\* following_data[i:i + self.batch_size] for i in range(0, len, batch_size)
Batches(data) == BatchesOf(data, AnalysisBatch)

\* The start of analyze_user_interests (lines 143-170): the user is looked
\* up, the following data loaded and cut into batches; without a users row
\* or without following data the method returns.
BeginAnalysis(t) ==
    LET data == FollowingData(t)
    IN  IF t \in users /\ data # <<>>
        THEN /\ runs < MaxRuns
             /\ runs' = runs + 1
             /\ acall' = [op |-> "analyze", t |-> t, rest |-> Batches(data),
                          results |-> <<>>, failed |-> 0]
             /\ last' = Step("analyze", t, 0, Len(Batches(data)), TRUE)
        ELSE /\ UNCHANGED <<runs, acall>>
             /\ last' = Step("analyze", t, 0, 0, FALSE)

\* analyze_user_interests called for a handle (manual mode, the tests).
analyze_user_interests(t) ==
    /\ acall = NoCall
    /\ queue = <<>>
    /\ BeginAnalysis(t)
    /\ UNCHANGED <<jobs, users, full, interests, queue>>
    /\ UNCHANGED <<schedVars, fetchVars, proxyVars>>

\* batch_results.extend(result_json["results"])
Accumulate(acc, res) == acc \o res

\* RestAfterFailure leaving the loop at the first failed batch.
NoRest(rest) == <<>>

\* The except clause and the else branch of lines 198-205 only log: the
\* loop goes on with the next batch.
RestAfterFailure(rest) == Tail(rest)

\* One iteration of the loop of lines 172-205: the classifier is called for
\* the next batch and its response parsed.
ClassifyBatch ==
    /\ acall # NoCall
    /\ acall.rest # <<>>
    /\ \E resp \in Responses(Head(acall.rest)) :
         /\ IF resp.kind = "ok"
            THEN acall' = [acall EXCEPT
                             !.results = Accumulate(acall.results, resp.results),
                             !.rest = Tail(acall.rest)]
            ELSE acall' = [acall EXCEPT
                             !.rest = RestAfterFailure(acall.rest),
                             !.failed = acall.failed + 1]
         /\ last' = Step("classify", acall.t, Head(acall.rest)[1],
                         Len(resp.results), resp.kind = "ok")
    /\ UNCHANGED <<jobs, users, full, interests, queue, runs>>
    /\ UNCHANGED <<schedVars, fetchVars, proxyVars>>

\* Valid accepting every category.
ValidAlways(c) == TRUE

\* if category not in category_mapping: continue
Valid(c) == c \in Taxonomy

\* Confidence with the default in place of every returned value.
ConfidenceDefault(r) == DefaultConfidence

\* result.get("confidence", 0.5)
Confidence(r) ==
    IF r.confidence = NULL THEN DefaultConfidence ELSE r.confidence

\* StoreKey with the account the result names.
SubjectKey(uid, r) == r.username

\* The user_id of the INSERT: the account whose following list was loaded
\* (the argument of _store_interest_results), whatever the result names.
StoreKey(uid, r) == uid

HasRow(rows, u, c) == \E i \in 1..Len(rows) : rows[i].user = u /\ rows[i].cat = c

\* Upsert with ON CONFLICT DO NOTHING: the stored score stays.
UpsertKeepFirst(rows, u, c, v) ==
    IF HasRow(rows, u, c) THEN rows
    ELSE Append(rows, [user |-> u, cat |-> c, conf |-> v])

\* INSERT INTO interests ... ON CONFLICT (user_id, category_id) DO UPDATE SET
\* confidence_score = EXCLUDED.confidence_score
Upsert(rows, u, c, v) ==
    IF HasRow(rows, u, c)
    THEN [i \in 1..Len(rows) |->
            IF rows[i].user = u /\ rows[i].cat = c
            THEN [rows[i] EXCEPT !.conf = v] ELSE rows[i]]
    ELSE Append(rows, [user |-> u, cat |-> c, conf |-> v])

\* _store_interest_results: the loop of lines 262-280.
RECURSIVE StoreResults(_, _, _)
StoreResults(rows, uid, results) ==
    IF results = <<>> THEN rows
    ELSE LET r == Head(results)
         IN  StoreResults(IF Valid(r.category)
                          THEN Upsert(rows, StoreKey(uid, r), r.category,
                                      Confidence(r))
                          ELSE rows,
                          uid, Tail(results))

\* What an entry of the results list may be besides an object with a string
\* category: something that is not an object (a string, a number, null), an
\* object whose category is a list, an object whose category is a number.
NotAnObject == "<not an object>"
ListCategory == "<list>"
NumberCategory == "<number>"

\* The entries the loop of _store_interest_results raises at: result.get
\* of something that is not a dict (AttributeError, line 263), and
\* `category not in category_mapping` for an unhashable category (TypeError,
\* line 268).  A number is hashable, is not in the mapping and is skipped.
Raises(r) == r.category \in {NotAnObject, ListCategory}

AnyRaises(results) == \E i \in 1..Len(results) : Raises(results[i])

\* The results the loop went through before it raised.
BeforeRaise(results) ==
    LET i == CHOOSE k \in 1..Len(results) :
                 Raises(results[k]) /\ \A j \in 1..(k - 1) : ~Raises(results[j])
    IN  SubSeq(results, 1, i - 1)

\* The results the loop of _store_interest_results skips.
Skipped(results) ==
    Cardinality({i \in 1..Len(results) : ~Valid(results[i].category)})

\* The end of analyze_user_interests (lines 207-212): the collected results
\* are stored and committed, if there are any.  On a "store" step last.j is
\* the number of skipped results, last.n the number of failed batches, and
\* last.ok tells that an INSERT met a stored row.
AnalyzeStore ==
    /\ acall # NoCall
    /\ acall.rest = <<>>
    /\ ~AnyRaises(acall.results)
    /\ interests' = IF acall.results # <<>>
                    THEN StoreResults(interests, acall.t, acall.results)
                    ELSE interests
    /\ acall' = NoCall
    /\ last' = Step("store", acall.t, Skipped(acall.results), acall.failed,
                    Len(acall.results) - Skipped(acall.results)
                        > Len(interests') - Len(interests))
    /\ UNCHANGED <<jobs, users, full, queue, runs>>
    /\ UNCHANGED <<schedVars, fetchVars, proxyVars>>

\* The end of analyze_user_interests when _store_interest_results raises:
\* the handler of lines 214-215 logs, nothing is committed and nothing is
\* rolled back.  The rows inserted before the exception stay in the open
\* transaction of self.db_conn: a later commit on the connection keeps
\* them, closing it drops them.  On a "raise" step last.j is the number of
\* results the loop went through.
AnalyzeStoreRaises ==
    /\ acall # NoCall
    /\ acall.rest = <<>>
    /\ AnyRaises(acall.results)
    /\ interests' \in {interests,
                       StoreResults(interests, acall.t,
                                    BeforeRaise(acall.results))}
    /\ acall' = NoCall
    /\ last' = Step("raise", acall.t, Len(BeforeRaise(acall.results)),
                    acall.failed, FALSE)
    /\ UNCHANGED <<jobs, users, full, queue, runs>>
    /\ UNCHANGED <<schedVars, fetchVars, proxyVars>>

\* The rows of the query of process_pending_users before the LIMIT: one per
\* pair of a users row and a completed following row of scrape_jobs with
\* its handle, for users without a row in interests.
PendingRows ==
    LET ids == SelectSeq([i \in 1..Len(jobs) |-> i],
                         LAMBDA i : /\ jobs[i].type = "following"
                                    /\ jobs[i].status = "completed"
                                    /\ jobs[i].target \in users
                                    /\ \A k \in 1..Len(interests) :
                                          interests[k].user # jobs[i].target)
    IN  [k \in 1..Len(ids) |-> jobs[ids[k]].target]

\* The rows at the positions S, in their order.
RowsAt(rows, S) ==
    LET idx == SelectSeq([i \in 1..Len(rows) |-> i], LAMBDA i : i \in S)
    IN  [k \in 1..Len(idx) |-> rows[idx[k]]]

\* process_pending_users up to its loop (lines 287-304): LIMIT 5 keeps any
\* five of the rows (the query has no ORDER BY).
process_pending_users ==
    /\ acall = NoCall
    /\ queue = <<>>
    /\ \E S \in SUBSET (1..Len(PendingRows)) :
         /\ Cardinality(S) = Min(PendingLimit, Len(PendingRows))
         /\ queue' = RowsAt(PendingRows, S)
    /\ last' = Step("pending", 0, 0, Len(queue'), TRUE)
    /\ UNCHANGED <<jobs, users, full, interests, acall, runs>>
    /\ UNCHANGED <<schedVars, fetchVars, proxyVars>>

\* One iteration of the loop of lines 306-310: analyze_user_interests for
\* the next selected handle.
PendingNext ==
    /\ acall = NoCall
    /\ queue # <<>>
    /\ BeginAnalysis(Head(queue))
    /\ queue' = Tail(queue)
    /\ UNCHANGED <<jobs, users, full, interests>>
    /\ UNCHANGED <<schedVars, fetchVars, proxyVars>>

RECURSIVE ConcatOver(_, _)
ConcatOver(f, n) == IF n = 0 THEN <<>> ELSE ConcatOver(f, n - 1) \o f[n]

\* The following rows of a target that follows every other account.
FollowsAll(t) ==
    SelectSeq([a \in 1..NumAccounts |-> <<t, a>>], LAMBDA r : r[2] # t)

\* A completed following row of scrape_jobs, as get_following leaves it.
DoneRow(t, n) ==
    [FetchRow(t, "following", 0) EXCEPT !.status = "completed", !.total = n,
                                        !.processed = n]

\* The tables the crawl has filled when the analysis starts: every account
\* has a users row, the targets of F follow every other account, target t
\* has k[t] completed following rows.
InitClassify ==
    /\ now = 0
    /\ current_day_processed = 0
    /\ last_day = DayOfMonth(0)
    /\ pc = "idle"
    /\ batch = <<>>
    /\ cur = 0
    /\ last = Step("init", 0, 0, 0, TRUE)
    /\ stale = FALSE
    /\ dispatchedToday = 0
    /\ users = Accounts
    /\ full = Targets
    /\ followers = <<>>
    /\ mutuals = <<>>
    /\ uncommitted = Clean
    /\ call = NoCall
    /\ ret = Returned("none", 0)
    /\ \E F \in SUBSET Targets, k \in [Targets -> 0..MaxDone] :
         /\ following = ConcatOver([t \in Targets |->
                            IF t \in F THEN FollowsAll(t) ELSE <<>>], NumTargets)
         /\ jobs = ConcatOver([t \in Targets |->
                       [i \in 1..k[t] |->
                          DoneRow(t, IF t \in F THEN NumAccounts - 1 ELSE 0)]],
                       NumTargets)
    /\ interests = <<>>
    /\ acall = NoCall
    /\ queue = <<>>
    /\ runs = 0
    /\ proxies = <<>>
    /\ current_index = 0
    /\ served = <<>>
    /\ manager = "proxy_manager"
    /\ source = PoolSize
    /\ failed = {}

NextClassify ==
    \/ \E t \in Targets : analyze_user_interests(t)
    \/ ClassifyBatch
    \/ AnalyzeStore
    \/ process_pending_users
    \/ PendingNext

SpecClassify == InitClassify /\ [][NextClassify]_vars

\* ------------------------------------------ the analysis service, forever
\* run_interest_analysis_only: process_pending_users in a loop that never
\* ends, each call running through the handles it selected.
NextPending ==
    \/ process_pending_users
    \/ PendingNext
    \/ ClassifyBatch
    \/ AnalyzeStore

\* The loop goes on: a call of process_pending_users that can start does
\* start, and a started call runs to its end.
FairPending ==
    /\ WF_vars(process_pending_users)
    /\ WF_vars(PendingNext)
    /\ WF_vars(ClassifyBatch)
    /\ WF_vars(AnalyzeStore)

\* The databases the service may find: one target follows one account, the
\* other targets follow nobody, and each target has up to MaxDone completed
\* following rows in scrape_jobs.
InitPending ==
    /\ now = 0
    /\ current_day_processed = 0
    /\ last_day = DayOfMonth(0)
    /\ pc = "idle"
    /\ batch = <<>>
    /\ cur = 0
    /\ last = Step("init", 0, 0, 0, TRUE)
    /\ stale = FALSE
    /\ dispatchedToday = 0
    /\ users = Accounts
    /\ full = Targets
    /\ followers = <<>>
    /\ mutuals = <<>>
    /\ uncommitted = Clean
    /\ call = NoCall
    /\ ret = Returned("none", 0)
    /\ \E f \in Targets, k \in [Targets -> 0..MaxDone] :
         /\ following = << <<f, NumAccounts>> >>
         /\ jobs = ConcatOver([t \in Targets |->
                       [i \in 1..k[t] |-> DoneRow(t, IF t = f THEN 1 ELSE 0)]],
                       NumTargets)
    /\ interests = <<>>
    /\ acall = NoCall
    /\ queue = <<>>
    /\ runs = 0
    /\ proxies = <<>>
    /\ current_index = 0
    /\ served = <<>>
    /\ manager = "proxy_manager"
    /\ source = PoolSize
    /\ failed = {}

SpecPending == InitPending /\ [][NextPending]_vars /\ FairPending

\* -------------------------------------------------- malformed results
\* The malformed entries a response for the batch may hold.
MalformedResults(b) ==
    {Result(NULL, NotAnObject, NULL)}
    \cup {Result(b[i], c, 9) : i \in 1..Len(b),
                               c \in {ListCategory, NumberCategory}}

\* The results lists with at least one malformed entry.
MalformedLists(b) ==
    LET R == {Result(b[i], c, v) : i \in 1..Len(b), c \in ResultCats,
                                   v \in ResultConfs}
        A == R \cup MalformedResults(b)
    IN  {l \in UNION {[1..n -> A] : n \in 1..MaxResults} :
            \E i \in 1..Len(l) : l[i] \in MalformedResults(b)}

\* One iteration of the loop of lines 172-205 for a response that parses,
\* has a results list, and holds a malformed entry: extend takes the list
\* as it is.
ClassifyBatchMalformed ==
    /\ acall # NoCall
    /\ acall.rest # <<>>
    /\ \E l \in MalformedLists(Head(acall.rest)) :
         /\ acall' = [acall EXCEPT
                         !.results = Accumulate(acall.results, l),
                         !.rest = Tail(acall.rest)]
         /\ last' = Step("classify", acall.t, Head(acall.rest)[1], Len(l), TRUE)
    /\ UNCHANGED <<jobs, users, full, interests, queue, runs>>
    /\ UNCHANGED <<schedVars, fetchVars, proxyVars>>

\* analyze_user_interests called for a target whose following list is
\* loaded, with no scrape job recorded.
InitMalformed ==
    /\ InitClassify
    /\ jobs = <<>>
    /\ Len(following) = NumTargets * (NumAccounts - 1)

NextMalformed ==
    \/ \E t \in Targets : analyze_user_interests(t)
    \/ ClassifyBatch
    \/ ClassifyBatchMalformed
    \/ AnalyzeStore
    \/ AnalyzeStoreRaises

SpecMalformed == InitMalformed /\ [][NextMalformed]_vars

\* ------------------------------------------------------- the batch loop
\* The following lists SpecPartition starts from: the lists of one to
\* MaxSubjects accounts.
SubjectLists == UNION {[1..n -> Accounts] : n \in 1..MaxSubjects}

\* analyze_user_interests at line 170, for any following list and any
\* batch_size: acall holds the list, the size, the batches still to go and
\* the batches the classifier was called for (history).
InitPartition ==
    /\ now = 0
    /\ jobs = <<>>
    /\ users = Accounts
    /\ current_day_processed = 0
    /\ last_day = DayOfMonth(0)
    /\ pc = "idle"
    /\ batch = <<>>
    /\ cur = 0
    /\ last = Step("init", 0, 0, 0, TRUE)
    /\ stale = FALSE
    /\ dispatchedToday = 0
    /\ full = {}
    /\ followers = <<>>
    /\ following = <<>>
    /\ mutuals = <<>>
    /\ uncommitted = Clean
    /\ call = NoCall
    /\ ret = Returned("none", 0)
    /\ interests = <<>>
    /\ \E d \in SubjectLists, n \in 1..MaxBatch :
          acall = [op |-> "batches", data |-> d, size |-> n,
                   rest |-> BatchesOf(d, n), invoked |-> <<>>]
    /\ queue = <<>>
    /\ runs = 0
    /\ proxies = <<>>
    /\ current_index = 0
    /\ served = <<>>
    /\ manager = "proxy_manager"
    /\ source = PoolSize
    /\ failed = {}

\* One iteration of the loop of lines 172-205 with the response left out:
\* the classifier is called for the next batch, whatever it answers.  On an
\* "invoke" step last.j is the batch_idx + 1 and last.n the batch's length.
InvokeClassifier ==
    /\ acall.op = "batches"
    /\ acall.rest # <<>>
    /\ acall' = [acall EXCEPT !.rest = Tail(acall.rest),
                              !.invoked = Append(acall.invoked, Head(acall.rest))]
    /\ last' = Step("invoke", 0, Len(acall.invoked) + 1, Len(Head(acall.rest)),
                    TRUE)
    /\ UNCHANGED <<jobs, users, full, interests, queue, runs>>
    /\ UNCHANGED <<schedVars, fetchVars, proxyVars>>

NextPartition == InvokeClassifier

SpecPartition == InitPartition /\ [][NextPartition]_vars

\* ------------------------------------------------------------ proxy pool
\* The two ProxyManager classes: scraper/proxy_manager.py and the one
\* instagram_scraper.py defines for itself (no mark_proxy_failed).
Managers == {"proxy_manager", "instagram_scraper"}

\* The orders random.shuffle may leave n placeholder proxies in.
Shuffles(n) ==
    {s \in [1..n -> 1..n] : \A i, k \in 1..n : s[i] = s[k] => i = k}

\* _load_proxies: the shuffled list of the n proxies the source supplies
\* (the PoolSize placeholders of lines 33-37 stand for the list of a proxy
\* service), or [] from the except branch of proxy_manager.py (the
\* scraper's own class has no such branch).
Loads(m, n) ==
    IF m = "proxy_manager"
    THEN Shuffles(n) \cup {<<>>}
    ELSE Shuffles(n)

\* The sizes of the list a source supplies: any size for proxy_manager.py,
\* the two placeholders for the scraper's own class.
Sources(m) ==
    IF m = "proxy_manager" THEN 1..MaxPool ELSE {ScraperPoolSize}

\* ProxyManager.__init__ on top of the initial state of the pipeline.
InitProxy ==
    /\ now = 0
    /\ jobs = <<>>
    /\ users = {}
    /\ current_day_processed = 0
    /\ last_day = DayOfMonth(0)
    /\ pc = "idle"
    /\ batch = <<>>
    /\ cur = 0
    /\ last = Step("init", 0, 0, 0, TRUE)
    /\ stale = FALSE
    /\ dispatchedToday = 0
    /\ full = {}
    /\ followers = <<>>
    /\ following = <<>>
    /\ mutuals = <<>>
    /\ uncommitted = Clean
    /\ call = NoCall
    /\ ret = Returned("none", 0)
    /\ interests = <<>>
    /\ acall = NoCall
    /\ queue = <<>>
    /\ runs = 0
    /\ manager \in Managers
    /\ source \in Sources(manager)
    /\ proxies \in Loads(manager, source)
    /\ current_index = 0
    /\ served = <<>>
    /\ failed = {}

\* The index left where it is.
StayIndex(i, n) == i

\* (self.current_index + 1) % len(self.proxies)
NextIndex(i, n) == (i + 1) % n

\* get_proxy.  On a "get_proxy" step last.n is the returned proxy, NULL for
\* None, and last.ok is FALSE when self.proxies[self.current_index] raised
\* IndexError.
get_proxy ==
    /\ Len(served) < MaxCalls
    /\ IF proxies = <<>>
       THEN /\ last' = Step("get_proxy", 0, 0, NULL, TRUE)
            /\ UNCHANGED <<proxies, current_index, served>>
       ELSE IF current_index >= Len(proxies)
       THEN /\ last' = Step("get_proxy", 0, 0, NULL, FALSE)
            /\ UNCHANGED <<proxies, current_index, served>>
       ELSE /\ last' = Step("get_proxy", 0, 0, proxies[current_index + 1], TRUE)
            /\ current_index' = NextIndex(current_index, Len(proxies))
            /\ served' = Append(served, proxies[current_index + 1])
            /\ UNCHANGED proxies
    /\ UNCHANGED <<manager, source, failed, jobs, users, full>>
    /\ UNCHANGED <<schedVars, fetchVars, classVars>>

\* list.remove: the list without the first occurrence of p.
Remove(s, p) ==
    LET i == CHOOSE k \in 1..Len(s) :
                 s[k] = p /\ \A j \in 1..(k - 1) : s[j] # p
    IN  SubSeq(s, 1, i - 1) \o SubSeq(s, i + 1, Len(s))

\* if proxy in self.proxies
InPool(s, p) == \E k \in 1..Len(s) : s[k] = p

\* A reload after every removal.
ReloadAlways(rest) == TRUE

\* if len(self.proxies) < 3
RunningLow(rest) == Len(rest) < LowWater

\* mark_proxy_failed(p).  On a "mark_failed" step last.j is p, last.n the
\* size of the pool after the removal, and last.ok tells that _load_proxies
\* ran.  current_index is left as it is.
mark_proxy_failed(p) ==
    /\ manager = "proxy_manager"
    /\ IF InPool(proxies, p)
       THEN LET rest == Remove(proxies, p)
            IN  /\ IF RunningLow(rest)
                      THEN /\ proxies' \in Loads(manager, source)
                           /\ last' = Step("mark_failed", 0, p, Len(rest), TRUE)
                      ELSE /\ proxies' = rest
                           /\ last' = Step("mark_failed", 0, p, Len(rest), FALSE)
                /\ served' = <<>>
                /\ failed' = failed \cup {p}
       ELSE /\ last' = Step("mark_failed", 0, p, Len(proxies), FALSE)
            /\ UNCHANGED <<proxies, served, failed>>
    /\ UNCHANGED <<current_index, manager, source, jobs, users, full>>
    /\ UNCHANGED <<schedVars, fetchVars, classVars>>

\* The calls a holder of the pool makes, in any order; the argument of
\* mark_proxy_failed is a placeholder proxy or a proxy the pool never held.
NextProxy ==
    \/ get_proxy
    \/ \E p \in 0..MaxPool : mark_proxy_failed(p)

SpecProxy == InitProxy /\ [][NextProxy]_vars

\* ================================================================= claims
JobIds == 1..Len(jobs)

RowsOf(js, t) == {j \in 1..Len(js) : js[j].target = t}

\* The step just taken handed job last.j to the scraper.
IsDispatch(l) == l.op \in {"profile", "begin"}

\* The step just taken ended a scraper call of the loop without an exception.
IsSuccess(l) == (l.op = "profile" /\ l.ok) \/ l.op = "end"

\* ---------------------------------------------------------------------- C1
\* C1: the daily-processed counter is always between 0 and the quota.
C1_CounterWithinQuota ==
    /\ current_day_processed >= 0
    /\ current_day_processed <= daily_quota

\* The counter has been counted up to the quota.
C1_Witness ==
    /\ current_day_processed = daily_quota
    /\ IsSuccess(last)

\* ---------------------------------------------------------------------- C2
\* C2: on one calendar day the scheduler hands at most quota jobs to the
\* scraper, failed ones included.
C2_DispatchesWithinQuota == dispatchedToday <= daily_quota

\* ---------------------------------------------------------------------- C3
\* C3: a job whose scraper call succeeded is completed, and no job is handed
\* to the scraper a second time.
C3_CompletedAndOnce ==
    [][/\ IsSuccess(last') => jobs'[last'.j].status = "completed"
       /\ IsDispatch(last') => ~jobs[last'.j].ran]_vars

\* ---------------------------------------------------------------------- C4
\* C4: a row's status changes only pending -> in_progress,
\* in_progress -> completed or in_progress -> failed; a completed or failed
\* row never changes and is never handed to the scraper again.
AllowedChange ==
    {<<"pending", "in_progress">>, <<"in_progress", "completed">>,
     <<"in_progress", "failed">>}

C4_StatusMachine ==
    [][\A j \in JobIds :
        /\ jobs'[j].status # jobs[j].status
              => <<jobs[j].status, jobs'[j].status>> \in AllowedChange
        /\ jobs[j].status \in {"completed", "failed"}
              => /\ jobs'[j].status = jobs[j].status
                 /\ ~(IsDispatch(last') /\ last'.j = j)]_vars

\* ---------------------------------------------------------------------- C5
\* C5: an enroll of a target that was enrolled less than 7 days before
\* creates no job.  Every row of the table was created on a day of 0..now,
\* so while now < 7 a target that has rows was enrolled less than 7 days ago.
C5_NoReEnrollWithinWindow ==
    [][(/\ last'.op = "enroll"
        /\ now < DedupDays
        /\ RowsOf(jobs, last'.t) # {})
          => Len(jobs') = Len(jobs)]_vars

\* ---------------------------------------------------------------------- C6
\* C6: enroll of a target without jobs creates exactly three pending jobs
\* for it, one of each type, and no other row.
C6_EnrollCreatesThree ==
    [][(last'.op = "enroll" /\ RowsOf(jobs, last'.t) = {})
          => /\ Len(jobs') = Len(jobs) + 3
             /\ SubSeq(jobs', 1, Len(jobs)) = jobs
             /\ \A j \in (Len(jobs) + 1)..Len(jobs') :
                    /\ jobs'[j].target = last'.t
                    /\ jobs'[j].status = "pending"
             /\ \A ty \in {"profile", "followers", "following"} :
                    Cardinality({j \in (Len(jobs) + 1)..Len(jobs') :
                                    jobs'[j].type = ty}) = 1]_vars

\* A target was enrolled while another one had jobs already.
C6_Witness ==
    /\ last.op = "enroll"
    /\ Cardinality(RowsOf(jobs, last.t)) = 3
    /\ \E t \in Targets : t # last.t /\ RowsOf(jobs, t) # {}

\* ---------------------------------------------------------------------- C7
\* C7: enroll creates nothing exactly when some job of the target was
\* started less than 7 days ago, whatever its status; otherwise it creates
\* three pending jobs.
StartedWithinWindow(t) ==
    \E j \in JobIds :
        /\ jobs[j].target = t
        /\ jobs[j].started # NULL
        /\ now - jobs[j].started < DedupDays

C8_ResetOnDateChange ==
    [][last'.op = "tick"
          => IF stale
             THEN current_day_processed' = 0
             ELSE current_day_processed' = current_day_processed]_vars

\* ---------------------------------------------------------------------- C9
\* C9: a tick with the counter at the quota and no date change leaves the
\* jobs, the counter and the stored accounts as they are and calls nothing.
C9_QuotaTickChangesNothing ==
    [][(/\ last'.op = "tick"
        /\ current_day_processed >= daily_quota
        /\ ~stale)
          => UNCHANGED <<jobs, users, current_day_processed, last_day, pc,
                         batch, cur, dispatchedToday>>]_vars

\* A tick has returned at the quota check.
C9_Witness ==
    /\ last.op = "tick"
    /\ ~last.ok
    /\ ~stale
    /\ current_day_processed = daily_quota

\* --------------------------------------------------------------------- C10
\* C10: a tick selects at most min(quota - counter, cap) jobs, all pending,
\* the oldest pending ones in ascending order, and the loop hands them to the
\* scraper one at a time in that order, none while a scraper call is running.
C10_BatchSelection ==
    [][/\ (last'.op = "tick" /\ last'.ok)
          => /\ Len(batch') <= daily_quota - current_day_processed'
             /\ Len(batch') <= BatchLimit
             /\ \A i \in 1..Len(batch') :
                    /\ batch'[i] \in JobIds
                    /\ jobs[batch'[i]].status = "pending"
                    /\ \A k \in 1..Len(batch') : i < k => batch'[i] < batch'[k]
                    /\ \A p \in JobIds :
                          (jobs[p].status = "pending" /\ p < batch'[i])
                             => \E k \in 1..Len(batch') : batch'[k] = p
       /\ IsDispatch(last')
          => /\ pc = "batch"
             /\ cur = 0
             /\ last'.j = Head(batch)
             /\ \A i \in 2..Len(batch) : last'.j < batch[i]]_vars

\* A tick has selected fewer jobs than are pending.
C10_Witness ==
    /\ last.op = "tick"
    /\ Len(batch) >= 1
    /\ Cardinality({j \in JobIds : jobs[j].status = "pending"}) > Len(batch)

\* --------------------------------------------------------------------- C11
\* The step just taken ended a scraper call of the loop with an exception.
IsFailure(l) == (l.op \in {"profile", "begin"} /\ ~l.ok) \/ l.op = "raise"

HasCompleted(js, t, ty) ==
    \E i \in 1..Len(js) :
        js[i].target = t /\ js[i].type = ty /\ js[i].status = "completed"

\* C12: after a followers or following job succeeds, the mutual computation
\* is called exactly when the target has both a completed followers job and
\* a completed following job, however many job rows the target has.
C12_MutualTriggerIffBothCompleted ==
    [][last'.op = "end" =>
        (last'.ok <=> /\ HasCompleted(jobs', last'.t, "followers")
                      /\ HasCompleted(jobs', last'.t, "following"))
      ]_vars

\* --------------------------------------------------------------------- C13
\* C13: a followers or following job handed to the scraper reuses the
\* pending row and adds no row to scrape_jobs.
C13_FetchAddsNoRow ==
    [][last'.op = "begin" =>
        Len(jobs') = Len(jobs)
      ]_vars

\* --------------------------------------------------------------------- C14
\* C14: a fetch called with max_count = N (0 included) over a listing of A
\* distinct items, for a target without edges of that direction, ends with
\* exactly min(N, A) edges inserted and its job completed with
\* total = processed = min(N, A).
C14_FetchInsertsMinOfLimit ==
    [][(last'.op = "done" /\ call.max # NULL /\ call.fresh) =>
        LET k     == Min(call.max, call.avail)
            after == IF call.op = "followers" THEN followers' ELSE following'
        IN  /\ Cardinality(EdgeSet(after, call.t)) = k
            /\ jobs'[call.job].status = "completed"
            /\ jobs'[call.job].total = k
            /\ jobs'[call.job].processed = k
      ]_vars

C16_CrashKeepsProcessedItems ==
    [][last'.op = "crash" =>
        /\ \A i \in 1..Len(followers) : InTable(followers', followers[i])
        /\ \A i \in 1..Len(following) : InTable(following', following[i])
        /\ users \subseteq users'
      ]_vars

\* --------------------------------------------------------------------- C17
\* No two rows of the table are equal.
NoDuplicates(tbl) ==
    \A i, k \in 1..Len(tbl) : i # k => tbl[i] # tbl[k]

\* C17: no two rows of followers (of following) share the same pair of
\* accounts, and an item whose edge is already stored adds no edge.
C17_EdgesUnique ==
    /\ [](NoDuplicates(followers) /\ NoDuplicates(following))
    /\ [][(last'.op = "item" /\
           InTable(EdgesOf(call.op), <<last'.t, last'.j>>)) =>
            /\ followers' = followers
            /\ following' = following
        ]_vars

\* A second fetch has walked over an item whose edge the first had stored.
C17_Witness ==
    /\ last.op = "item"
    /\ ~last.ok
    /\ InTable(followers, <<last.t, last.j>>)
    /\ Len(jobs) = 2

\* --------------------------------------------------------------------- C18
\* C18: an item of a fetch never changes an account that is already stored:
\* the listed account is inserted only when absent, a stored profile
\* snapshot stays.
C18_FetchKeepsAccounts ==
    [][last'.op = "item" =>
        /\ users \subseteq users'
        /\ \A a \in users : (a \in full') <=> (a \in full)
        /\ users' \ users \subseteq {last'.j}
        /\ (users' \ users) \cap full' = {}
      ]_vars

\* A fetch has listed an account whose profile snapshot was stored before.
C18_Witness ==
    /\ last.op = "item"
    /\ last.j \in full
    /\ last.j # last.t

\* --------------------------------------------------------------------- C19
\* C19: after calculate_mutual_followers the mutuals rows of the account are
\* exactly the pairs stored both as a followers row and as a following row
\* of the account; with either set empty nothing is added and nothing is
\* raised.
C19_MutualsAreIntersection ==
    [][last'.op = "mutual" =>
        /\ EdgeSet(mutuals', last'.t) =
              EdgeSet(followers', last'.t) \cap EdgeSet(following', last'.t)
        /\ ret'.kind # "raise"
        /\ \A i \in 1..Len(mutuals) : InTable(mutuals', mutuals[i])
      ]_vars

\* The computation stored a mutual for an account that also has a follower
\* it does not follow.
C19_Witness ==
    /\ last.op = "mutual"
    /\ EdgeSet(mutuals, last.t) # {}
    /\ EdgeSet(followers, last.t) # EdgeSet(mutuals, last.t)

\* --------------------------------------------------------------------- C20
\* C20: calculate_mutual_followers returns the number of mutuals rows the
\* call inserted (0 when none was new).
C20_MutualsReturnsCount ==
    [][last'.op = "mutual" =>
        ret' = Returned("value", Len(mutuals') - Len(mutuals))
      ]_vars

\* --------------------------------------------------------------------- C21
\* The pairs stored both as a followers row and as a following row of the
\* account.
Intersection(t) == EdgeSet(followers, t) \cap EdgeSet(following, t)

\* C21: calculate_mutual_followers called again for an account whose
\* followers and following rows have not changed since the last computation
\* (its mutuals rows are the intersection already) inserts no row and leaves
\* mutuals as it is.
C21_MutualsIdempotent ==
    [][(last'.op = "mutual" /\ EdgeSet(mutuals, last'.t) = Intersection(last'.t))
        => /\ mutuals' = mutuals
           /\ last'.n = 0
      ]_vars

\* A repeated computation found the account's mutuals stored already.
C21_Witness ==
    /\ last.op = "mutual"
    /\ last.n = 0
    /\ EdgeSet(mutuals, last.t) # {}

\* --------------------------------------------------------------------- C22
\* C22: in every reachable state the mutuals rows of every account are
\* exactly the intersection of its followers rows and following rows.
C22_MutualsAlwaysIntersection ==
    \A t \in Targets : EdgeSet(mutuals, t) = Intersection(t)

\* C22, amended: in every reachable state the mutuals rows of every account
\* are among the intersection of its followers rows and following rows, and
\* nothing but calculate_mutual_followers changes mutuals.
C22_MutualsWithinIntersection ==
    /\ [](\A t \in Targets : EdgeSet(mutuals, t) \subseteq Intersection(t))
    /\ [][last'.op # "mutual" => mutuals' = mutuals]_vars

\* Mutuals are stored, for an account with a follower it does not follow,
\* and a later call of the scraper has ended.
C22_Witness ==
    /\ \E t \in Targets : /\ EdgeSet(mutuals, t) # {}
                          /\ EdgeSet(mutuals, t) # EdgeSet(followers, t)
    /\ last.op # "mutual"

\* --------------------------------------------------------------------- C23
\* The confidence stored for the pair, NULL when no row is stored.
RowConf(rows, u, c) ==
    IF HasRow(rows, u, c)
    THEN (CHOOSE r \in {rows[i] : i \in 1..Len(rows)} :
              r.user = u /\ r.cat = c).conf
    ELSE NULL

\* The results of the list that name a taxonomy category.
ValidResults(results) ==
    {results[i] : i \in {k \in 1..Len(results) :
                            results[k].category \in Taxonomy}}

\* C23: a result whose category is not an exact member of the taxonomy
\* never creates or changes a row of interests, and every valid result of
\* the same response is stored.
C23_UnknownCategoryDiscarded ==
    [][last'.op = "store" =>
        /\ \A k \in 1..Len(interests') : interests'[k].cat \in Taxonomy
        /\ \A u \in Accounts, c \in ResultCats :
              RowConf(interests', u, c) # RowConf(interests, u, c) =>
                  \E r \in ValidResults(acall.results) : r.category = c
        /\ \A r \in ValidResults(acall.results) :
              HasRow(interests', acall.t, r.category)
      ]_vars

\* Results were stored from a list that also held a result naming no
\* taxonomy category.
C23_Witness ==
    /\ last.op = "store"
    /\ last.j >= 1
    /\ interests # <<>>

\* --------------------------------------------------------------------- C24
\* The positions of interests' whose row the step created or changed.
Written ==
    {k \in 1..Len(interests') :
        RowConf(interests, interests'[k].user, interests'[k].cat)
            # interests'[k].conf}

\* C24 as stated: every valid result is stored under the account the
\* result is about (its username) and its category.
C24_StoredUnderSubject ==
    [][last'.op = "store" =>
        \A r \in ValidResults(acall.results) :
            HasRow(interests', r.username, r.category)
      ]_vars

\* C24: every row a store step creates or changes belongs to the account
\* whose following list was analysed, never to an account a result is
\* about, and every valid result's category has a row of that account.
C24_StoredUnderAnalysedAccount ==
    [][last'.op = "store" =>
        /\ \A k \in Written : interests'[k].user = acall.t
        /\ \A r \in ValidResults(acall.results) :
              /\ r.username # acall.t
              /\ HasRow(interests', acall.t, r.category)
      ]_vars

\* Rows were stored for the analysed account, which follows other accounts.
C24_Witness ==
    /\ last.op = "store"
    /\ \E c \in Taxonomy : HasRow(interests, last.t, c)
    /\ FollowingData(last.t) # <<>>

\* --------------------------------------------------------------------- C25
\* The last result of the list that names the category.
LastOf(results, c) ==
    LET at == {i \in 1..Len(results) : results[i].category = c}
    IN  results[CHOOSE i \in at : \A k \in at : k <= i]

\* Every batch was answered with a results list whose entries all name a
\* taxonomy category and carry a confidence.
WellFormed ==
    /\ acall.failed = 0
    /\ acall.results # <<>>
    /\ \A i \in 1..Len(acall.results) :
          /\ acall.results[i].category \in Taxonomy
          /\ acall.results[i].confidence # NULL

\* C25: after an analysis whose responses were all well formed and named
\* taxonomy categories only, the analysed account itself has a row for each
\* returned category, with the confidence of the result for that category
\* (of the last such result, when several results name the category).
C25_TargetRowsMatchResults ==
    [][(last'.op = "store" /\ WellFormed) =>
        \A i \in 1..Len(acall.results) :
            LET c == acall.results[i].category
            IN  /\ HasRow(interests', acall.t, c)
                /\ RowConf(interests', acall.t, c)
                       = LastOf(acall.results, c).confidence
      ]_vars

\* An analysis without a failed batch or a skipped result stored rows of
\* both categories for the analysed account.
C25_Witness ==
    /\ last.op = "store"
    /\ last.j = 0
    /\ last.n = 0
    /\ \A c \in Taxonomy : HasRow(interests, last.t, c)

\* --------------------------------------------------------------------- C26
\* C26: interests never holds two rows for one (account, category), and a
\* store step leaves for each category a valid result names the confidence
\* of the last result merged for it, whatever was stored before, and leaves
\* every other pair as it was.
C26_LastWriteWins ==
    /\ [](\A i, k \in 1..Len(interests) :
              (interests[i].user = interests[k].user
                  /\ interests[i].cat = interests[k].cat) => i = k)
    /\ [][last'.op = "store" =>
            \A u \in Accounts, c \in ResultCats :
                RowConf(interests', u, c) =
                    IF u = acall.t
                       /\ \E r \in ValidResults(acall.results) : r.category = c
                    THEN Confidence(LastOf(acall.results, c))
                    ELSE RowConf(interests, u, c)
        ]_vars

\* A result was merged into a row an earlier result had created, and a row
\* holds the lowest confidence the classifier returns.
C26_Witness ==
    /\ last.op = "store"
    /\ last.ok
    /\ \E c \in Taxonomy : RowConf(interests, last.t, c) = 3

\* --------------------------------------------------------------------- C27
\* The classifier call of the step failed: the call raised, json.loads
\* rejected the content, or the object had no "results" key.
BatchFailed == last'.op = "classify" /\ ~last'.ok

\* C27: a failed batch adds no result and changes no row, the loop goes on
\* with the batches after it, an answered batch keeps the results collected
\* before it, and the store step stores every valid collected result.
C27_FailedBatchSkipped ==
    [][/\ BatchFailed =>
            /\ acall'.results = acall.results
            /\ acall'.rest = Tail(acall.rest)
            /\ interests' = interests
       /\ (last'.op = "classify" /\ last'.ok) =>
            /\ Len(acall'.results) = Len(acall.results) + last'.n
            /\ SubSeq(acall'.results, 1, Len(acall.results)) = acall.results
            /\ acall'.rest = Tail(acall.rest)
       /\ last'.op = "store" =>
            \A r \in ValidResults(acall.results) :
                HasRow(interests', acall.t, r.category)
      ]_vars

\* An analysis with a failed batch stored the results of another batch.
C27_Witness ==
    /\ last.op = "store"
    /\ last.n >= 1
    /\ interests # <<>>

\* --------------------------------------------------------------------- C28
\* C28: every stored confidence lies within [0, 1] (0..10 tenths).
C28_ConfidenceWithinUnit ==
    \A k \in 1..Len(interests) :
        interests[k].conf >= 0 /\ interests[k].conf <= 10

\* --------------------------------------------------------------------- C29
\* The accounts with a completed following job and no interests row.
Eligible ==
    {t \in users :
        /\ \E k \in 1..Len(jobs) : /\ jobs[k].target = t
                                   /\ jobs[k].type = "following"
                                   /\ jobs[k].status = "completed"
        /\ \A k \in 1..Len(interests) : interests[k].user # t}

\* C29: process_pending_users takes at most PendingLimit accounts, each of
\* them eligible, and all the eligible accounts when there are at most
\* PendingLimit of them.
C29_PendingSelectsEligible ==
    [][last'.op = "pending" =>
        /\ Len(queue') <= PendingLimit
        /\ \A i \in 1..Len(queue') : queue'[i] \in Eligible
        /\ Cardinality(Eligible) <= PendingLimit =>
              \A t \in Eligible : \E i \in 1..Len(queue') : queue'[i] = t
      ]_vars

\* --------------------------------------------------------------------- C30
\* C30: while the pool stays as it is, what get_proxy returns repeats with
\* the period of the pool's size and takes a different proxy of the pool
\* at each call within a period, so that any Len(proxies) consecutive calls
\* return each proxy once; on an empty pool get_proxy returns None, does
\* not raise and changes nothing.
C30_RoundRobin ==
    /\ [](\A i, k \in 1..Len(served) :
              /\ \E q \in 1..Len(proxies) : proxies[q] = served[i]
              /\ served[i] = served[k] <=> (i - k) % Len(proxies) = 0)
    /\ [][(last'.op = "get_proxy" /\ proxies = <<>>) =>
              /\ last'.n = NULL
              /\ last'.ok
              /\ UNCHANGED proxyVars
        ]_vars

\* get_proxy went once round a pool of PoolSize proxies and returned the
\* first proxy again.
C30_Witness ==
    /\ last.op = "get_proxy"
    /\ Len(proxies) = PoolSize
    /\ Len(served) = PoolSize + 1
    /\ served[1] = served[PoolSize + 1]

\* --------------------------------------------------------------------- C31
\* C31: get_proxy never returns a proxy that mark_proxy_failed removed
\* from the pool.
C31_FailedProxyNeverReturned ==
    [][last'.op = "get_proxy" => last'.n \notin failed]_vars

\* --------------------------------------------------------------------- C32
\* C32: mark_proxy_failed(p) reloads the pool exactly when it removed p and
\* fewer than LowWater proxies remained; when LowWater or more remained the
\* pool is the old one without p, and when p was not in the pool the pool
\* is the old one.
C32_ReloadBelowFloorOnly ==
    [][last'.op = "mark_failed" =>
        IF InPool(proxies, last'.j)
        THEN IF Len(proxies) - 1 < LowWater
             THEN /\ last'.ok
                  /\ Len(proxies') \in {0, source}
             ELSE /\ ~last'.ok
                  /\ proxies' = Remove(proxies, last'.j)
                  /\ Len(proxies') = Len(proxies) - 1
        ELSE /\ ~last'.ok
             /\ proxies' = proxies
      ]_vars

\* A proxy was removed and LowWater proxies remained, without a reload.
C32_Witness ==
    /\ last.op = "mark_failed"
    /\ ~last.ok
    /\ last.j \in failed
    /\ Len(proxies) = LowWater
    /\ ~InPool(proxies, last.j)

C34_ItemSelectsProxy ==
    [][(last'.op = "item" /\ proxies # <<>>) =>
          /\ Len(served') = Len(served) + 1
          /\ InPool(proxies, served'[Len(served')])
      ]_vars

\* --------------------------------------------------------------------- C35
\* C35: processed_items of the row of a running fetch changes exactly at
\* the items whose count is a multiple of CheckpointEvery, so while the row
\* is in_progress it is the largest such multiple not above the count.
C35_ProgressAtCheckpoints ==
    /\ []((call # NoCall /\ jobs[call.job].status = "in_progress") =>
              jobs[call.job].processed
                  = (call.count \div CheckpointEvery) * CheckpointEvery)
    /\ [][last'.op = "item" =>
              (jobs'[call.job].processed # jobs[call.job].processed
                  <=> call'.count % CheckpointEvery = 0)
        ]_vars

\* A running fetch has passed a checkpoint and its row shows it.
C35_Witness ==
    /\ call # NoCall
    /\ last.op = "item"
    /\ call.count = CheckpointEvery
    /\ jobs[call.job].status = "in_progress"
    /\ jobs[call.job].processed = CheckpointEvery

\* --------------------------------------------------------------------- C36
\* The sequences of a sequence one after the other.
Flatten(ss) == ConcatOver(ss, Len(ss))

\* C36: the batches one after the other are the following list (every
\* subject is in exactly one batch, in order), every batch but the last has
\* batch_size subjects and the last has between one and batch_size, and the
\* classifier is called for the batches in order, once each.
C36_BatchesPartitionSubjects ==
    acall.op = "batches" =>
        LET B == BatchesOf(acall.data, acall.size)
        IN  /\ Flatten(B) = acall.data
            /\ \A k \in 1..Len(B) :
                  /\ Len(B[k]) >= 1
                  /\ Len(B[k]) <= acall.size
                  /\ k < Len(B) => Len(B[k]) = acall.size
            /\ acall.invoked \o acall.rest = B
            /\ Flatten(acall.invoked) \o Flatten(acall.rest) = acall.data

\* The classifier was called for every batch of a list whose last batch is
\* shorter than the others.
C36_Witness ==
    /\ acall.op = "batches"
    /\ last.op = "invoke"
    /\ acall.rest = <<>>
    /\ Len(acall.invoked) >= 2
    /\ last.n < acall.size

\* --------------------------------------------------------------------- C37
\* C37: when the classifier is called for a batch, every valid result of
\* the batches before it is already a row of interests.
C37_StoredBeforeNextBatch ==
    [][last'.op = "classify" =>
        \A r \in ValidResults(acall.results) :
            HasRow(interests, acall.t, r.category)
      ]_vars

\* --------------------------------------------------------------------- C38
\* C38: whatever malformed entries the collected results hold, every valid
\* result of the analysis has its row when analyze_user_interests is over.
C38_MalformedDroppedAlone ==
    [][last'.op \in {"store", "raise"} =>
        \A r \in ValidResults(acall.results) :
            HasRow(interests', acall.t, r.category)
      ]_vars

\* --------------------------------------------------------------------- C39
\* C39: the handles one call of process_pending_users runs through are
\* all different.
C39_PendingOncePerAccount ==
    [][last'.op = "pending" =>
        \A i, k \in 1..Len(queue') : queue'[i] = queue'[k] => i = k
      ]_vars

\* --------------------------------------------------------------------- C40
\* The account waits for its analysis: a completed following job, a
\* following list, no row in interests.
Waiting(t) == t \in Eligible /\ FollowingData(t) # <<>>

\* C40: with process_pending_users called again and again, an account that
\* waits for its analysis is eventually passed to analyze_user_interests
\* (or the analyses followed have reached MaxRuns).
C40_WaitingEventuallyAnalysed ==
    \A t \in Targets :
        Waiting(t) ~> ((last.op = "analyze" /\ last.t = t) \/ runs >= MaxRuns)

====
